---------------------------- MODULE Spec2Model ----------------------------
(***************************************************************************)
(* Mini-Go on a 5x5 board (src/app.py): the rules engine (has_liberty,     *)
(* remove_dead, apply_move), the evaluator (heuristic) and the alpha-beta  *)
(* search (minimax).  The functions are pure; the specifications Spec,     *)
(* SpecSearch and SpecPlay draw a board from a bounded family and apply    *)
(* the functions to it.  SpecSession is the game session built on them:    *)
(* the session state and its handlers play_human, ai_move and the reset    *)
(* buttons.                                                                *)
(***************************************************************************)
EXTENDS Integers, Sequences, FiniteSets, TLC

VARIABLES board, call, ret, turn, history, ai_thinking, game_over, forced_winner

vars == <<board, call, ret, turn, history, ai_thinking, game_over, forced_winner>>

\* The session fields other than the board.
session == <<turn, history, ai_thinking, game_over, forced_winner>>

(***************************************************************************)
(* Program constants and Python values.                                    *)
(***************************************************************************)
BOARD_SIZE == 5

MaxDepth == 4

Inf == 1000

None == <<>>

IndexError == <<"IndexError">>

\* None where the other values are strings (forced_winner).
NoWinner == "None"

Players == {"B", "W"}

\* The session fields other than the board as the first run of the script
\* and the reset buttons set them.
fresh_session ==
    /\ turn = "W"
    /\ history = <<>>
    /\ ai_thinking = FALSE
    /\ game_over = FALSE
    /\ forced_winner = NoWinner

Cells == (0 .. BOARD_SIZE - 1) \X (0 .. BOARD_SIZE - 1)

new_board == [r \in 0 .. BOARD_SIZE - 1 |-> [c \in 0 .. BOARD_SIZE - 1 |-> "."]]

(***************************************************************************)
(* Python list indexing: an index in -len..-1 counts from the end, an      *)
(* index outside -len..len-1 raises IndexError.                            *)
(***************************************************************************)
ValidIndex(i) == -BOARD_SIZE <= i /\ i < BOARD_SIZE

Idx(i) == IF i < 0 THEN i + BOARD_SIZE ELSE i

At(b, r, c) == b[Idx(r)][Idx(c)]

Put(b, r, c, v) == [b EXCEPT ![Idx(r)][Idx(c)] = v]

Opp(player) == IF player = "W" THEN "B" ELSE "W"

(***************************************************************************)
(* neighbors(r, c): the four orthogonal neighbours, in the order up, down, *)
(* left, right, keeping those inside the grid.                             *)
(***************************************************************************)
InGrid(p) == 0 <= p[1] /\ p[1] < BOARD_SIZE /\ 0 <= p[2] /\ p[2] < BOARD_SIZE

neighbors(r, c) ==
    SelectSeq(<< <<r - 1, c>>, <<r + 1, c>>, <<r, c - 1>>, <<r, c + 1>> >>, InGrid)

(***************************************************************************)
(* has_liberty: depth-first traversal of the same-coloured group with one  *)
(* visited set shared by the whole traversal.  The result carries the      *)
(* visited set as the call leaves it and `expanded`, the cells whose       *)
(* neighbours the call and the calls below it went on to scan (the calls   *)
(* that got past the visited test), in the order they were entered.        *)
(***************************************************************************)
RECURSIVE has_liberty_from(_, _, _, _), has_liberty_scan(_, _, _, _, _)

has_liberty_scan_unshared(b, color, nbrs, i, visited) ==
    IF i > Len(nbrs) THEN [res |-> FALSE, visited |-> visited, expanded |-> <<>>]
    ELSE LET nr == nbrs[i][1]
             nc == nbrs[i][2]
         IN  IF b[nr][nc] = "." THEN [res |-> TRUE, visited |-> visited, expanded |-> <<>>]
             ELSE IF b[nr][nc] = color
                  THEN LET sub == has_liberty_from(b, nr, nc, visited)
                       IN  IF sub.res THEN sub
                           ELSE LET rest == has_liberty_scan(b, color, nbrs, i + 1, visited)
                                IN  [rest EXCEPT !.expanded = sub.expanded \o @]
                  ELSE has_liberty_scan(b, color, nbrs, i + 1, visited)

has_liberty_scan(b, color, nbrs, i, visited) ==
    IF i > Len(nbrs) THEN [res |-> FALSE, visited |-> visited, expanded |-> <<>>]
    ELSE LET nr == nbrs[i][1]
             nc == nbrs[i][2]
         IN  IF b[nr][nc] = "." THEN [res |-> TRUE, visited |-> visited, expanded |-> <<>>]
             ELSE IF b[nr][nc] = color
                  THEN LET sub == has_liberty_from(b, nr, nc, visited)
                       IN  IF sub.res THEN sub
                           ELSE LET rest == has_liberty_scan(b, color, nbrs, i + 1, sub.visited)
                                IN  [rest EXCEPT !.expanded = sub.expanded \o @]
                  ELSE has_liberty_scan(b, color, nbrs, i + 1, visited)

has_liberty_from(b, r, c, visited) ==
    IF <<r, c>> \in visited THEN [res |-> FALSE, visited |-> visited, expanded |-> <<>>]
    ELSE LET below == has_liberty_scan(b, At(b, r, c), neighbors(r, c), 1,
                                       visited \cup {<<r, c>>})
         IN  [below EXCEPT !.expanded = << <<r, c>> >> \o @]

has_liberty_direct(b, r, c) ==
    \E i \in 1 .. Len(neighbors(r, c)) :
        b[neighbors(r, c)[i][1]][neighbors(r, c)[i][2]] = "."

has_liberty(b, r, c) == has_liberty_from(b, r, c, {}).res

(***************************************************************************)
(* remove_dead: the stones of `color` without liberty are collected on the *)
(* board as it is, then cleared; the count is returned.                    *)
(***************************************************************************)
RECURSIVE remove_dead_cascade_from(_, _, _, _)

remove_dead_cascade_from(b, color, k, n) ==
    IF k >= BOARD_SIZE * BOARD_SIZE THEN [board |-> b, count |-> n]
    ELSE LET r == k \div BOARD_SIZE
             c == k % BOARD_SIZE
         IN  IF b[r][c] = color /\ ~has_liberty(b, r, c)
             THEN remove_dead_cascade_from(Put(b, r, c, "."), color, k + 1, n + 1)
             ELSE remove_dead_cascade_from(b, color, k + 1, n)

remove_dead_cascade(b, color) == remove_dead_cascade_from(b, color, 0, 0)

remove_dead(b, color) ==
    LET to_remove == {p \in Cells : b[p[1]][p[2]] = color /\ ~has_liberty(b, p[1], p[2])}
    IN  [board |-> [r \in 0 .. BOARD_SIZE - 1 |->
                      [c \in 0 .. BOARD_SIZE - 1 |->
                         IF <<r, c>> \in to_remove THEN "." ELSE b[r][c]]],
         count |-> Cardinality(to_remove)]

(***************************************************************************)
(* apply_move: occupied target -> None; otherwise a copy with the stone    *)
(* placed, the opponent's dead stones removed, and None when the placed    *)
(* stone's group is then without liberty.  `input` is the caller's board   *)
(* as the call leaves it, `result` what the call returns (or raises).      *)
(***************************************************************************)
apply_move_suicide_first(b, r, c, player) ==
    IF ~ValidIndex(r) \/ ~ValidIndex(c) THEN [input |-> b, result |-> IndexError]
    ELSE IF At(b, r, c) # "." THEN [input |-> b, result |-> None]
    ELSE LET placed == Put(b, r, c, player)
         IN  IF ~has_liberty(placed, r, c) THEN [input |-> b, result |-> None]
             ELSE [input |-> b, result |-> remove_dead(placed, Opp(player)).board]

apply_move_no_capture(b, r, c, player) ==
    IF ~ValidIndex(r) \/ ~ValidIndex(c) THEN [input |-> b, result |-> IndexError]
    ELSE IF At(b, r, c) # "." THEN [input |-> b, result |-> None]
    ELSE LET new_b == Put(b, r, c, player)
         IN  IF ~has_liberty(new_b, r, c) THEN [input |-> b, result |-> None]
             ELSE [input |-> b, result |-> new_b]

apply_move_overwrite(b, r, c, player) ==
    IF ~ValidIndex(r) \/ ~ValidIndex(c) THEN [input |-> b, result |-> IndexError]
    ELSE LET new_b == remove_dead(Put(b, r, c, player), Opp(player)).board
         IN  IF ~has_liberty(new_b, r, c) THEN [input |-> b, result |-> None]
             ELSE [input |-> b, result |-> new_b]

apply_move_in_place(b, r, c, player) ==
    IF ~ValidIndex(r) \/ ~ValidIndex(c) THEN [input |-> b, result |-> IndexError]
    ELSE IF At(b, r, c) # "." THEN [input |-> b, result |-> None]
    ELSE LET new_b == remove_dead(Put(b, r, c, player), Opp(player)).board
         IN  IF ~has_liberty(new_b, r, c) THEN [input |-> new_b, result |-> None]
             ELSE [input |-> new_b, result |-> new_b]

apply_move(b, r, c, player) ==
    IF ~ValidIndex(r) \/ ~ValidIndex(c) THEN [input |-> b, result |-> IndexError]
    ELSE IF At(b, r, c) # "." THEN [input |-> b, result |-> None]
    ELSE LET new_b == remove_dead(Put(b, r, c, player), Opp(player)).board
         IN  IF ~has_liberty(new_b, r, c) THEN [input |-> b, result |-> None]
             ELSE [input |-> b, result |-> new_b]

(***************************************************************************)
(* heuristic: the player's stones minus the opponent's.                    *)
(***************************************************************************)
Count(b, v) == Cardinality({p \in Cells : b[p[1]][p[2]] = v})

heuristic_black(b, player) == Count(b, "B") - Count(b, "W")

heuristic(b, player) == Count(b, player) - Count(b, Opp(player))

(***************************************************************************)
(* minimax: depth-bounded alpha-beta search.  Both loops scan the cells in *)
(* row-major order, skipping the cells where apply_move gives no board;    *)
(* `break` leaves the column loop only, so the scan goes on with the next  *)
(* row.  The loop state is the best value and move so far *)
(* and the running bound (alpha in a maximizing node, beta in a minimizing *)
(* one); `nodes` counts the calls of minimax made below and including the  *)
(* node.                                                                   *)
(***************************************************************************)
Max(a, b) == IF a >= b THEN a ELSE b

Min(a, b) == IF a <= b THEN a ELSE b

best_move_origin == <<0, 0>>

best_move_init == None

ImprovesMax(eval_val, max_eval) == eval_val > max_eval

ImprovesMin(eval_val, min_eval) == eval_val < min_eval

Cutoff_eager(alpha, beta) == beta <= alpha + 1

Cutoff(alpha, beta) == beta <= alpha

RowMajor == [k \in 1 .. BOARD_SIZE * BOARD_SIZE |->
                <<(k - 1) \div BOARD_SIZE, (k - 1) % BOARD_SIZE>>]

\* The cells of the scan that are not skipped by `if not new_b: continue`.
legal_cells(b, color) ==
    SelectSeq(RowMajor, LAMBDA p : apply_move(b, p[1], p[2], color).result # None)

\* The next position of the scan after a `break` at position i: the first
\* cell of a later row.
RECURSIVE next_row(_, _, _)

next_row(cells, i, r) ==
    IF i > Len(cells) \/ cells[i][1] > r THEN i ELSE next_row(cells, i + 1, r)

RECURSIVE minimax(_, _, _, _, _, _), max_loop(_, _, _, _, _, _, _), min_loop(_, _, _, _, _, _, _)

max_loop(b, depth, beta, player, cells, i, st) ==
    IF i > Len(cells) THEN st
    ELSE LET r == cells[i][1]
             c == cells[i][2]
             new_b == apply_move(b, r, c, player).result
             sub == minimax(new_b, depth - 1, st.alpha, beta, FALSE, player)
             eval_val == sub.eval
             better == ImprovesMax(eval_val, st.eval)
             nxt == [eval  |-> IF better THEN eval_val ELSE st.eval,
                     move  |-> IF better THEN <<r, c>> ELSE st.move,
                     alpha |-> Max(st.alpha, eval_val),
                     nodes |-> st.nodes + sub.nodes]
         IN  IF Cutoff(nxt.alpha, beta)
             THEN max_loop(b, depth, beta, player, cells, next_row(cells, i + 1, r), nxt)
             ELSE max_loop(b, depth, beta, player, cells, i + 1, nxt)

min_loop(b, depth, alpha, player, cells, i, st) ==
    IF i > Len(cells) THEN st
    ELSE LET r == cells[i][1]
             c == cells[i][2]
             new_b == apply_move(b, r, c, Opp(player)).result
             sub == minimax(new_b, depth - 1, alpha, st.beta, TRUE, player)
             eval_val == sub.eval
             better == ImprovesMin(eval_val, st.eval)
             nxt == [eval  |-> IF better THEN eval_val ELSE st.eval,
                     move  |-> IF better THEN <<r, c>> ELSE st.move,
                     beta  |-> Min(st.beta, eval_val),
                     nodes |-> st.nodes + sub.nodes]
         IN  IF Cutoff(alpha, nxt.beta)
             THEN min_loop(b, depth, alpha, player, cells, next_row(cells, i + 1, r), nxt)
             ELSE min_loop(b, depth, alpha, player, cells, i + 1, nxt)

minimax(b, depth, alpha, beta, maximizing, player) ==
    IF depth = 0 THEN [eval |-> heuristic(b, player), move |-> None, nodes |-> 1]
    ELSE IF maximizing
         THEN LET st == max_loop(b, depth, beta, player, legal_cells(b, player), 1,
                           [eval |-> 0 - Inf, move |-> best_move_init,
                            alpha |-> alpha, nodes |-> 1])
              IN  [eval |-> st.eval, move |-> st.move, nodes |-> st.nodes]
         ELSE LET st == min_loop(b, depth, alpha, player, legal_cells(b, Opp(player)), 1,
                           [eval |-> Inf, move |-> best_move_init,
                            beta |-> beta, nodes |-> 1])
              IN  [eval |-> st.eval, move |-> st.move, nodes |-> st.nodes]

search(b, depth, player) == minimax(b, depth, 0 - Inf, Inf, TRUE, player)

(***************************************************************************)
(* The boards the functions are applied to: a template (the empty board,   *)
(* or a Black wall with three one-point eyes on the bottom row) with the   *)
(* first WindowCells cells of the top-left corner filled in every way.     *)
(***************************************************************************)
WindowCells == 5

CoordSlack == 1

WindowOrder ==
    << <<0, 0>>, <<0, 1>>, <<1, 0>>, <<1, 1>>, <<0, 2>>, <<1, 2>>,
       <<2, 0>>, <<2, 1>>, <<2, 2>>, <<0, 3>>, <<1, 3>>, <<2, 3>> >>

Window == {WindowOrder[i] : i \in 1 .. WindowCells}

Eyes == {<<BOARD_SIZE - 1, 0>>, <<BOARD_SIZE - 1, 2>>, <<BOARD_SIZE - 1, 4>>}

wall_board ==
    [r \in 0 .. BOARD_SIZE - 1 |->
       [c \in 0 .. BOARD_SIZE - 1 |-> IF <<r, c>> \in Eyes THEN "." ELSE "B"]]

Templates == {new_board, wall_board}

Overlay(t, w) ==
    [r \in 0 .. BOARD_SIZE - 1 |->
       [c \in 0 .. BOARD_SIZE - 1 |-> IF <<r, c>> \in Window THEN w[<<r, c>>] ELSE t[r][c]]]

InputBoards == {Overlay(t, w) : t \in Templates, w \in [Window -> {".", "B", "W"}]}

Coords == (0 - CoordSlack) .. (BOARD_SIZE - 1 + CoordSlack)

(***************************************************************************)
(* Rules engine: one call of has_liberty, remove_dead or apply_move on the *)
(* board.                                                                  *)
(***************************************************************************)
Init ==
    /\ board \in InputBoards
    /\ call = [op |-> "none"]
    /\ ret = None
    /\ fresh_session

CallHasLiberty(r, c) ==
    /\ call.op = "none"
    /\ board[r][c] # "."
    /\ call' = [op |-> "has_liberty", r |-> r, c |-> c]
    /\ ret' = has_liberty(board, r, c)
    /\ UNCHANGED <<board, session>>

CallRemoveDead(color) ==
    /\ call.op = "none"
    /\ call' = [op |-> "remove_dead", color |-> color]
    /\ ret' = remove_dead(board, color)
    /\ UNCHANGED <<board, session>>

CallApplyMove(r, c, player) ==
    /\ call.op = "none"
    /\ call' = [op |-> "apply_move", r |-> r, c |-> c, player |-> player]
    /\ ret' = apply_move(board, r, c, player)
    /\ UNCHANGED <<board, session>>

Next ==
    \/ \E p \in Cells : CallHasLiberty(p[1], p[2])
    \/ \E color \in Players : CallRemoveDead(color)
    \/ \E r \in Coords, c \in Coords, player \in Players : CallApplyMove(r, c, player)

Spec == Init /\ [][Next]_vars

(***************************************************************************)
(* Search engine: one root call of minimax with the full window.  Depths   *)
(* above 1 are run on the boards with at most MaxEmptyDeep empty cells.    *)
(***************************************************************************)
MaxEmptyDeep == 4

CallMinimax(depth, player) ==
    /\ call.op = "none"
    /\ depth = 1 \/ Count(board, ".") <= MaxEmptyDeep
    /\ call' = [op |-> "minimax", depth |-> depth, player |-> player]
    /\ ret' = search(board, depth, player)
    /\ UNCHANGED <<board, session>>

\* A call of minimax with depth 0, as the search makes it on its leaves, in a
\* maximizing or a minimizing node.
CallMinimaxLeaf(maximizing, player) ==
    /\ call.op = "none"
    /\ call' = [op |-> "minimax_leaf", maximizing |-> maximizing, player |-> player]
    /\ ret' = minimax(board, 0, 0 - Inf, Inf, maximizing, player)
    /\ UNCHANGED <<board, session>>

NextSearch ==
    \/ \E depth \in 1 .. MaxDepth, player \in Players : CallMinimax(depth, player)
    \/ \E maximizing \in BOOLEAN, player \in Players : CallMinimaxLeaf(maximizing, player)

SpecSearch == Init /\ [][NextSearch]_vars

(***************************************************************************)
(* Reference notions of the rules of Go, independent of the traversal:     *)
(* the group of a stone is the least set containing it and closed under    *)
(* same-coloured orthogonal neighbours; its liberties are the empty cells  *)
(* adjacent to it.                                                         *)
(***************************************************************************)
Abs(n) == IF n < 0 THEN 0 - n ELSE n

Adjacent(p, q) == Abs(p[1] - q[1]) + Abs(p[2] - q[2]) = 1

Around(p) ==
    {q \in {<<p[1] - 1, p[2]>>, <<p[1] + 1, p[2]>>, <<p[1], p[2] - 1>>, <<p[1], p[2] + 1>>} :
        q \in Cells /\ Adjacent(p, q)}

RECURSIVE Grow(_, _, _)

Grow(b, S, frontier) ==
    LET T == {q \in UNION {Around(p) : p \in frontier} :
                 q \notin S /\ \E p \in frontier : b[q[1]][q[2]] = b[p[1]][p[2]]}
    IN  IF T = {} THEN S ELSE Grow(b, S \cup T, T)

Group(b, p) == Grow(b, {p}, {p})

Liberties(b, S) == {q \in UNION {Around(p) : p \in S} : b[q[1]][q[2]] = "."}

Dead(b, color) == {p \in Cells : b[p[1]][p[2]] = color /\ Liberties(b, Group(b, p)) = {}}

Cleared(b, S) ==
    [r \in 0 .. BOARD_SIZE - 1 |->
       [c \in 0 .. BOARD_SIZE - 1 |-> IF <<r, c>> \in S THEN "." ELSE b[r][c]]]

IsBoard(x) == x # None /\ x # IndexError

OnGridEmpty == call.op = "apply_move" /\ InGrid(<<call.r, call.c>>) /\ board[call.r][call.c] = "."

Placed == Put(board, call.r, call.c, call.player)

AfterCapture == Cleared(Placed, Dead(Placed, Opp(call.player)))

\* C1: on an empty cell apply_move returns None exactly when, after the stone is
\* placed and the opponent groups without liberty are removed, the placed stone's
\* group has no liberty; a placement that fills the mover's last liberty but
\* captures is accepted.
C1_SuicideAfterCapture ==
    OnGridEmpty =>
        /\ (ret.result = None) <=>
              (Liberties(AfterCapture, Group(AfterCapture, <<call.r, call.c>>)) = {})
        /\ (/\ Liberties(Placed, Group(Placed, <<call.r, call.c>>)) = {}
            /\ Around(<<call.r, call.c>>) \cap Dead(Placed, Opp(call.player)) # {})
              => IsBoard(ret.result)

C1_Witness ==
    /\ OnGridEmpty
    /\ Liberties(Placed, Group(Placed, <<call.r, call.c>>)) = {}
    /\ Around(<<call.r, call.c>>) \cap Dead(Placed, Opp(call.player)) # {}
    /\ IsBoard(ret.result)

\* C2: when the empty cell (r,c) is the only liberty of an opponent group,
\* apply_move succeeds and every cell of that group is empty in the result.
C2_CaptureWholeGroup ==
    OnGridEmpty =>
        \A q \in Cells :
            (/\ board[q[1]][q[2]] = Opp(call.player)
             /\ Liberties(board, Group(board, q)) = {<<call.r, call.c>>})
            => /\ IsBoard(ret.result)
               /\ \A g \in Group(board, q) : ret.result[g[1]][g[2]] = "."

C2_Witness ==
    /\ OnGridEmpty
    /\ IsBoard(ret.result)
    /\ \E q \in Cells :
          /\ board[q[1]][q[2]] = Opp(call.player)
          /\ Liberties(board, Group(board, q)) = {<<call.r, call.c>>}
          /\ Cardinality(Group(board, q)) >= 2
          /\ \A g \in Group(board, q) : ret.result[g[1]][g[2]] = "."

\* C3: apply_move on an in-range occupied cell returns None and leaves the input
\* board cell-for-cell as it was.
C3_OccupiedRejected ==
    (call.op = "apply_move" /\ InGrid(<<call.r, call.c>>) /\ board[call.r][call.c] # ".")
        => ret.result = None /\ ret.input = board

C3_Witness ==
    /\ call.op = "apply_move"
    /\ InGrid(<<call.r, call.c>>)
    /\ board[call.r][call.c] = Opp(call.player)
    /\ ret.result = None
    /\ ret.input = board

\* C6: has_liberty on a stone is true iff some cell of the stone's maximal
\* 4-connected same-colour group is orthogonally adjacent to an empty cell.
C6_HasLibertyIffGroupLiberty ==
    call.op = "has_liberty" =>
        (ret <=> Liberties(board, Group(board, <<call.r, call.c>>)) # {})

C6_Witness ==
    /\ call.op = "has_liberty"
    /\ ret = TRUE
    /\ Liberties(board, {<<call.r, call.c>>}) = {}
    /\ Cardinality(Group(board, <<call.r, call.c>>)) >= 4

\* C7: remove_dead clears exactly the stones of the colour whose group has no
\* liberty on the board as it was before the call, leaves every other cell as
\* it was, and returns the number of cells cleared.
C7_RemoveDeadExact ==
    call.op = "remove_dead" =>
        /\ ret.board = Cleared(board, Dead(board, call.color))
        /\ ret.count = Cardinality(Dead(board, call.color))

C7_Witness ==
    /\ call.op = "remove_dead"
    /\ ret.count >= 2
    /\ \E p \in Dead(board, call.color) : Cardinality(Group(board, p)) >= 2
    /\ \E p \in Cells : board[p[1]][p[2]] = call.color /\ ret.board[p[1]][p[2]] = call.color

\* C8: apply_move with a row or column outside 0..4 produces no board (it
\* returns None or raises) and places no stone.
C8_OutOfRangeRejected ==
    (call.op = "apply_move" /\ ~InGrid(<<call.r, call.c>>)) => ~IsBoard(ret.result)

(***************************************************************************)
(* Reference search: plain minimax without a window, every legal cell of   *)
(* every node explored in row-major order, the first best child kept.      *)
(***************************************************************************)
RECURSIVE full_minimax(_, _, _, _), full_loop(_, _, _, _, _, _, _)

full_loop(b, depth, maximizing, player, cells, i, st) ==
    IF i > Len(cells) THEN st
    ELSE LET mover == IF maximizing THEN player ELSE Opp(player)
             sub == full_minimax(apply_move(b, cells[i][1], cells[i][2], mover).result,
                                 depth - 1, ~maximizing, player)
             better == IF maximizing THEN sub.eval > st.eval ELSE sub.eval < st.eval
         IN  full_loop(b, depth, maximizing, player, cells, i + 1,
                       [eval  |-> IF better THEN sub.eval ELSE st.eval,
                        move  |-> IF better THEN cells[i] ELSE st.move,
                        nodes |-> st.nodes + sub.nodes])

full_minimax(b, depth, maximizing, player) ==
    IF depth = 0 THEN [eval |-> heuristic(b, player), move |-> None, nodes |-> 1]
    ELSE full_loop(b, depth, maximizing, player,
                   legal_cells(b, IF maximizing THEN player ELSE Opp(player)), 1,
                   [eval |-> IF maximizing THEN 0 - Inf ELSE Inf, move |-> None, nodes |-> 1])

Legal(b, p, player) == b[p[1]][p[2]] = "." /\ IsBoard(apply_move(b, p[1], p[2], player).result)

HasLegalMove(b, player) == \E p \in Cells : Legal(b, p, player)

\* C4: the score and move of the alpha-beta search at the root (window -Inf, Inf)
\* equal those of the un-pruned minimax with the same scan order and tie-break,
\* at every depth 1 to 4.
C4_AlphaBetaEqualsFull ==
    call.op = "minimax" =>
        LET full == full_minimax(board, call.depth, TRUE, call.player)
        IN  ret.eval = full.eval /\ ret.move = full.move

C4_Witness ==
    /\ call.op = "minimax"
    /\ call.depth = MaxDepth
    /\ ret.move # None
    /\ ret.eval # Inf /\ ret.eval # 0 - Inf
    /\ ret.nodes < full_minimax(board, call.depth, TRUE, call.player).nodes

\* C5: the move returned by the root search is none or an empty cell of the
\* input board where apply_move by the root player succeeds; with no legal move
\* for the root player it is none.
C5_MoveIsLegalOrNone ==
    call.op = "minimax" =>
        /\ ret.move # None => (InGrid(ret.move) /\ Legal(board, ret.move, call.player))
        /\ ~HasLegalMove(board, call.player) => ret.move = None

C5_Witness ==
    /\ call.op = "minimax"
    /\ call.depth >= 2
    /\ ret.move # None
    /\ Legal(board, ret.move, call.player)
    /\ \E p \in Cells : board[p[1]][p[2]] = "." /\ ~Legal(board, p, call.player)

RootScore(p) ==
    full_minimax(apply_move(board, p[1], p[2], call.player).result,
                 call.depth - 1, FALSE, call.player).eval

RootScores == {<<p, RootScore(p)>> : p \in {q \in Cells : Legal(board, q, call.player)}}

RowMajorBefore(p, q) == p[1] < q[1] \/ (p[1] = q[1] /\ p[2] < q[2])

FirstBest(scored) ==
    CHOOSE x \in scored :
        \A y \in scored : y[2] < x[2] \/ (y[2] = x[2] /\ ~RowMajorBefore(y[1], x[1]))

\* C9: among the root moves whose score equals the best score the search returns
\* the first in row-major order; on the empty board with depth 1 for Black it
\* returns (0,0) with score 1.
C9_FirstBestInRowMajor ==
    call.op = "minimax" =>
        LET scored == RootScores
        IN  /\ scored # {} =>
                  (ret.move = FirstBest(scored)[1] /\ ret.eval = FirstBest(scored)[2])
            /\ (board = new_board /\ call.depth = 1 /\ call.player = "B")
                  => (ret.move = <<0, 0>> /\ ret.eval = 1)

\* C10: a root search of depth >= 1 returns a finite score whenever the player to
\* move has a legal move; the infinite sentinel is the final score only when
\* every root cell is illegal.
C10_FiniteWhenLegalMove ==
    (call.op = "minimax" /\ call.depth >= 1 /\ HasLegalMove(board, call.player))
        => (ret.eval # Inf /\ ret.eval # 0 - Inf)

(***************************************************************************)
(* Stone difference counted cell by cell over the scan order.              *)
(***************************************************************************)
RECURSIVE StoneDiffFrom(_, _, _)

StoneDiffFrom(b, player, k) ==
    IF k > Len(RowMajor) THEN 0
    ELSE LET v == b[RowMajor[k][1]][RowMajor[k][2]]
         IN  (IF v = player THEN 1 ELSE IF v = "." THEN 0 ELSE -1)
                 + StoneDiffFrom(b, player, k + 1)

StoneDiff(b, player) == StoneDiffFrom(b, player, 1)

\* C11: minimax with depth 0 returns (heuristic(board, player), None), the
\* player's stones minus the opponent's, in a maximizing and in a minimizing
\* node alike.
C11_LeafIsHeuristic ==
    call.op = "minimax_leaf" =>
        /\ ret.eval = StoneDiff(board, call.player)
        /\ ret.eval = heuristic(board, call.player)
        /\ ret.move = None

C11_Witness ==
    /\ call.op = "minimax_leaf"
    /\ ~call.maximizing
    /\ call.player = "W"
    /\ ret.eval = StoneDiff(board, "W")
    /\ ret.eval > 0
    /\ ret.move = None

\* C16: a successful apply_move leaves the caller's board as it was; the board it
\* returns holds the player's stone at board[r][c] and differs from the input
\* only there and at the opponent stones whose group is without liberty once
\* the stone is placed, which are empty; no stone of the mover is removed.
C16_OnlyPlacedAndCaptured ==
    (call.op = "apply_move" /\ IsBoard(ret.result)) =>
        LET target == <<Idx(call.r), Idx(call.c)>>
            captured == Dead(Placed, Opp(call.player))
        IN  /\ ret.input = board
            /\ board[target[1]][target[2]] = "."
            /\ ret.result[target[1]][target[2]] = call.player
            /\ \A p \in captured : ret.result[p[1]][p[2]] = "."
            /\ \A p \in Cells \ (captured \cup {target}) :
                   ret.result[p[1]][p[2]] = board[p[1]][p[2]]
            /\ \A p \in Cells : board[p[1]][p[2]] = call.player
                                     => ret.result[p[1]][p[2]] = call.player

C16_Witness ==
    /\ call.op = "apply_move"
    /\ IsBoard(ret.result)
    /\ ret.input = board
    /\ Cardinality({p \in Cells : ret.result[p[1]][p[2]] # board[p[1]][p[2]]}) >= 3
    /\ \E p \in Cells : board[p[1]][p[2]] = call.player /\ ret.result[p[1]][p[2]] = call.player
    /\ \E p \in Cells : board[p[1]][p[2]] = Opp(call.player)
                            /\ ret.result[p[1]][p[2]] = Opp(call.player)

\* C17: minimax with depth >= 1 returns a move, not None, whenever the side to
\* move at the node has a legal move on the input board, at every depth 1 to 4.
C17_MoveWhenLegalMove ==
    (call.op = "minimax" /\ call.depth >= 1 /\ HasLegalMove(board, call.player))
        => ret.move # None

Block(p) == {p, <<p[1], p[2] + 1>>, <<p[1] + 1, p[2]>>, <<p[1] + 1, p[2] + 1>>}

Traversal == has_liberty_from(board, call.r, call.c, {})

\* C19: has_liberty returns on every board and start cell, groups with cycles
\* included, and no cell is expanded twice in one top-level call: the cells
\* expanded are pairwise distinct, at most one per cell of the board, and are
\* the visited set.
C19_ExpandsEachCellOnce ==
    call.op = "has_liberty" =>
        LET t == Traversal
        IN  /\ t.res = ret
            /\ \A i, j \in 1 .. Len(t.expanded) : t.expanded[i] = t.expanded[j] => i = j
            /\ Len(t.expanded) <= BOARD_SIZE * BOARD_SIZE
            /\ {t.expanded[i] : i \in 1 .. Len(t.expanded)} = t.visited

C19_Witness ==
    /\ call.op = "has_liberty"
    /\ ret = FALSE
    /\ \E p \in Cells : Block(p) \subseteq Traversal.visited
    /\ Len(Traversal.expanded) = Cardinality(Group(board, <<call.r, call.c>>))
    /\ Len(Traversal.expanded) >= 5

(***************************************************************************)
(* Free play: from the empty board, any sequence of successful apply_move  *)
(* calls by either player in any order.  The stones are placed in the      *)
(* bottom-left corner, PlaySpan rows by PlaySpan columns; a row is given   *)
(* by its index from the top or, as Python indexing allows, by its         *)
(* negative index from the bottom.                                         *)
(***************************************************************************)
PlaySpan == 2

PlayRows == ((BOARD_SIZE - PlaySpan) .. (BOARD_SIZE - 1)) \cup ((0 - PlaySpan) .. (0 - 1))

PlayCols == 0 .. (PlaySpan - 1)

InitPlay ==
    /\ board = new_board
    /\ call = [op |-> "none"]
    /\ ret = None
    /\ fresh_session

Place(r, c, player) ==
    /\ IsBoard(apply_move(board, r, c, player).result)
    /\ call' = [op |-> "apply_move", r |-> r, c |-> c, player |-> player]
    /\ ret' = apply_move(board, r, c, player)
    /\ board' = apply_move(board, r, c, player).result
    /\ UNCHANGED session

NextPlay == \E r \in PlayRows, c \in PlayCols, player \in Players : Place(r, c, player)

SpecPlay == InitPlay /\ [][NextPlay]_vars

\* C15: on every board reached from the empty board by successful apply_move
\* calls, every stone belongs to a group with at least one liberty.
C15_NoGroupWithoutLiberty ==
    \A p \in Cells :
        board[p[1]][p[2]] # "." => Liberties(board, Group(board, p)) # {}

(***************************************************************************)
(* The game session.  A handler is an operator from the session state, a   *)
(* record of the six session fields, to the set of states it can leave     *)
(* and what it did; the set has two elements only where random.random() is *)
(* drawn.  What ai_move did carries `before`, the board it started from,   *)
(* and, when the root enumeration ran, its outcome `root` and the clock's  *)
(* `budget`.                                                               *)
(***************************************************************************)
INSTANT_WIN_THRESHOLD == 15

session_state ==
    [board |-> board, turn |-> turn, history |-> history, ai_thinking |-> ai_thinking,
     game_over |-> game_over, forced_winner |-> forced_winner]

no_moves_left(b, player) ==
    \A k \in 1 .. Len(RowMajor) :
        apply_move(b, RowMajor[k][1], RowMajor[k][2], player).result = None

\* roll < 0.1 or not: either outcome of the draw.
end_game_with_forced_rule(s) ==
    {[s EXCEPT !.forced_winner = w, !.game_over = TRUE] : w \in {"B", "W"}}

instant_winner_swapped(val) == IF val > 0 THEN "W" ELSE "B"

instant_winner(val) == IF val > 0 THEN "B" ELSE "W"

check_instant_win(s) ==
    LET val == heuristic(s.board, "B")
    IN  IF Abs(val) >= INSTANT_WIN_THRESHOLD
        THEN [s EXCEPT !.game_over = TRUE, !.forced_winner = instant_winner(val)]
        ELSE s

auto_pass_turn_never(s) == {s}

auto_pass_turn(s) ==
    IF s.game_over THEN {s}
    ELSE IF no_moves_left(s.board, s.turn)
         THEN LET passed == [s EXCEPT !.turn = Opp(s.turn)]
              IN  IF no_moves_left(passed.board, passed.turn)
                  THEN end_game_with_forced_rule(passed)
                  ELSE {passed}
         ELSE {s}

\* What declare_winner announces: "B", "W" or "draw".
declare_winner(s) ==
    IF s.forced_winner # NoWinner THEN (IF s.forced_winner = "B" THEN "B" ELSE "W")
    ELSE LET val == heuristic(s.board, "B")
         IN  IF val > 0 THEN "B" ELSE IF val < 0 THEN "W" ELSE "draw"

human_may_move(s) == s.turn = "W" /\ ~s.game_over

play_human(s, r, c) ==
    IF ~human_may_move(s) THEN {[state |-> s, ran |-> FALSE, moved |-> FALSE]}
    ELSE LET new_b == apply_move(s.board, r, c, "W").result
         IN  IF new_b = None THEN {[state |-> s, ran |-> TRUE, moved |-> FALSE]}
             ELSE LET placed == check_instant_win(
                                    [s EXCEPT !.board = new_b,
                                              !.history = Append(@, <<"W", <<r, c>>>>)])
                  IN  IF placed.game_over
                      THEN {[state |-> placed, ran |-> TRUE, moved |-> TRUE]}
                      ELSE {[state |-> n, ran |-> TRUE, moved |-> TRUE] :
                               n \in auto_pass_turn([placed EXCEPT !.turn = "B"])}

ai_may_move_any_turn(s) == ~s.game_over

ai_may_move(s) == s.turn = "B" /\ ~s.game_over

\* `best_val is None or val > best_val`; best_val and best_move are None
\* together.
root_improves_last(val, best_val, best_move) ==
    IF best_move = None THEN TRUE ELSE val >= best_val

root_improves(val, best_val, best_move) ==
    IF best_move = None THEN TRUE ELSE val > best_val

(***************************************************************************)
(* The root enumeration of ai_move.  The clock is read after every root    *)
(* move examined (line 179) and at the end of every row (line 181);        *)
(* `budget` is the number of readings that find the two seconds not        *)
(* exceeded, and every later reading finds them exceeded.  `examined` is   *)
(* the sequence of root moves scored, `reads` the number of readings made. *)
(***************************************************************************)
RECURSIVE root_cols(_, _, _, _, _, _), root_rows(_, _, _, _, _, _)

root_start ==
    [best_val |-> None, best_move |-> None, examined |-> <<>>, reads |-> 0, expired |-> FALSE]

\* Lines 177-179 for the root move at `cell` with score `val`: the best move so
\* far, then one reading of the clock.
root_score(st, cell, val, budget) ==
    LET better == root_improves(val, st.best_val, st.best_move)
    IN  [best_val  |-> IF better THEN val ELSE st.best_val,
         best_move |-> IF better THEN cell ELSE st.best_move,
         examined  |-> Append(st.examined, cell),
         reads     |-> st.reads + 1,
         expired   |-> st.reads >= budget]

\* Line 181: one reading of the clock at the end of a row.
root_row_end(st, budget) ==
    [st EXCEPT !.reads = @ + 1, !.expired = st.reads >= budget]

\* Lines 179-180: `break` out of the row when the reading found the time exceeded.
root_cols_on(b, depth, budget, cells, i, st) ==
    IF st.expired THEN st ELSE root_cols(b, depth, budget, cells, i + 1, st)

root_cols(b, depth, budget, cells, i, st) ==
    IF i > Len(cells) THEN st
    ELSE root_cols_on(b, depth, budget, cells, i,
             root_score(st, cells[i],
                        minimax(apply_move(b, cells[i][1], cells[i][2], "B").result,
                                depth - 1, 0 - Inf, Inf, FALSE, "B").eval,
                        budget))

\* Lines 181-182: `break` out of the rows when the reading found the time exceeded.
root_rows_on(b, depth, budget, cells, r, st) ==
    IF st.expired THEN st ELSE root_rows(b, depth, budget, cells, r + 1, st)

root_rows(b, depth, budget, cells, r, st) ==
    IF r >= BOARD_SIZE THEN st
    ELSE root_rows_on(b, depth, budget, cells, r,
             root_row_end(root_cols(b, depth, budget,
                                    SelectSeq(cells, LAMBDA p : p[1] = r), 1, st),
                          budget))

ai_move(s, depth, budget) ==
    IF ~ai_may_move(s) THEN {[state |-> s, before |-> s.board, ran |-> FALSE, scanned |-> FALSE]}
    ELSE LET thinking == check_instant_win([s EXCEPT !.ai_thinking = TRUE])
         IN  IF thinking.game_over
             THEN {[state |-> [thinking EXCEPT !.ai_thinking = FALSE], before |-> s.board,
                    ran |-> TRUE, scanned |-> FALSE]}
             ELSE \* one element: the scan is evaluated once
                  UNION {
                    LET new_b == IF root.best_move # None
                                 THEN apply_move(thinking.board, root.best_move[1],
                                                 root.best_move[2], "B").result
                                 ELSE None
                        played == IF new_b # None
                                  THEN [thinking EXCEPT
                                           !.board = new_b,
                                           !.history = Append(@, <<"B", root.best_move>>)]
                                  ELSE thinking
                        handed == [check_instant_win(played) EXCEPT
                                      !.turn = "W", !.ai_thinking = FALSE]
                    IN  {[state |-> n, before |-> s.board, ran |-> TRUE, scanned |-> TRUE,
                          root |-> root, budget |-> budget] : n \in auto_pass_turn(handed)}
                    : root \in {root_rows(thinking.board, depth, budget,
                                          legal_cells(thinking.board, "B"), 0,
                                          root_start)} }

(***************************************************************************)
(* The session from its first run.  The human clicks one of the first      *)
(* ClickChoices empty cells in the order ClickOrder (the bottom row, then  *)
(* the rows from the top); the depth slider stays within 1..SessionDepth;  *)
(* the clock can run out, after at most MaxClockReads readings, in the     *)
(* first SlowMoves moves of a game; a game is followed for MaxHistory      *)
(* moves.                                                                  *)
(***************************************************************************)
SessionDepth == 1

ClickChoices == 1

MaxClockReads == 2

SlowMoves == 20

MaxHistory == 70

\* A budget no scan uses up: one reading per cell and one per row at most.
NoTimeout == BOARD_SIZE * BOARD_SIZE + BOARD_SIZE

ClickOrder ==
    [k \in 1 .. Len(RowMajor) |->
        RowMajor[((k - 1 + BOARD_SIZE * (BOARD_SIZE - 1)) % Len(RowMajor)) + 1]]

Clicks ==
    LET empty == SelectSeq(ClickOrder, LAMBDA p : board[p[1]][p[2]] = ".")
    IN  {empty[k] : k \in 1 .. Min(ClickChoices, Len(empty))}

\* The six assignments of the Reset and Play Again buttons.
new_session ==
    [board |-> new_board, turn |-> "W", history |-> <<>>, ai_thinking |-> FALSE,
     game_over |-> FALSE, forced_winner |-> NoWinner]

Becomes(s) ==
    /\ board' = s.board
    /\ turn' = s.turn
    /\ history' = s.history
    /\ ai_thinking' = s.ai_thinking
    /\ game_over' = s.game_over
    /\ forced_winner' = s.forced_winner

InitSession ==
    /\ board = new_board
    /\ call = [op |-> "none"]
    /\ ret = None
    /\ fresh_session

PlayHuman(r, c) ==
    /\ Len(history) < MaxHistory
    /\ \E out \in play_human(session_state, r, c) :
          /\ call' = [op |-> "play_human", r |-> r, c |-> c]
          /\ ret' = [ran |-> out.ran, moved |-> out.moved]
          /\ Becomes(out.state)

AiMove(depth, budget) ==
    /\ Len(history) < MaxHistory
    /\ budget = NoTimeout \/ Len(history) < SlowMoves
    /\ \E out \in ai_move(session_state, depth, budget) :
          /\ call' = [op |-> "ai_move", depth |-> depth]
          /\ ret' = [out EXCEPT !.state = None]
          /\ Becomes(out.state)

Reset ==
    /\ call' = [op |-> "reset"]
    /\ ret' = None
    /\ Becomes(new_session)

PlayAgain ==
    /\ game_over
    /\ call' = [op |-> "play_again"]
    /\ ret' = None
    /\ Becomes(new_session)

NextSession ==
    \/ \E p \in Clicks : PlayHuman(p[1], p[2])
    \/ \E depth \in 1 .. SessionDepth, budget \in (0 .. MaxClockReads) \cup {NoTimeout} :
          AiMove(depth, budget)
    \/ Reset
    \/ PlayAgain

SpecSession == InitSession /\ [][NextSession]_vars

(***************************************************************************)
(* Reference notions for the session.                                      *)
(***************************************************************************)
SignWinner(b) ==
    IF StoneDiff(b, "B") > 0 THEN "B" ELSE IF StoneDiff(b, "B") < 0 THEN "W" ELSE "draw"

InstantWin(b) == Abs(StoneDiff(b, "B")) >= INSTANT_WIN_THRESHOLD

RootValue(b, p, depth) ==
    full_minimax(apply_move(b, p[1], p[2], "B").result, depth - 1, FALSE, "B").eval

\* The turn and the end of the game once Black's move (or none) has left
\* board b: White is to move, unless White has no legal move and is passed
\* over; the game ends on an instant win or when neither side can move.
HandedOnTurn(b) ==
    IF InstantWin(b) \/ HasLegalMove(b, "W") THEN "W" ELSE "B"

HandedOnOver(b) ==
    InstantWin(b) \/ (~HasLegalMove(b, "W") /\ ~HasLegalMove(b, "B"))

\* C12: when ai_move finds the time exceeded during the root enumeration, the
\* root moves examined are the first legal cells in row-major order and none is
\* examined after the reading that found the time exceeded; the move played is
\* the best-scoring examined move, the first in row-major order on ties (no
\* move when none was examined); no error is raised and the turn is handed on
\* as after any move of Black.
C12_CutoffPlaysBestExamined ==
    [][(call'.op = "ai_move" /\ ret'.scanned /\ ret'.root.expired) =>
          LET root == ret'.root
              legal == legal_cells(board, "B")
              n == Len(root.examined)
              scored == {<<legal[i], RootValue(board, legal[i], call'.depth)>> : i \in 1 .. n}
          IN  /\ n <= Len(legal)
              /\ n <= ret'.budget + 1
              /\ \A i \in 1 .. n : root.examined[i] = legal[i]
              /\ IF n = 0
                 THEN board' = board /\ history' = history /\ root.best_move = None
                 ELSE /\ root.best_move = FirstBest(scored)[1]
                      /\ root.best_val = FirstBest(scored)[2]
                      /\ board' = apply_move(board, root.best_move[1],
                                             root.best_move[2], "B").result
                      /\ history' = Append(history, <<"B", root.best_move>>)
              /\ IsBoard(board')
              /\ turn' = HandedOnTurn(board')
              /\ game_over' = HandedOnOver(board')
              /\ ~ai_thinking'
      ]_vars

C12_Witness ==
    /\ call.op = "ai_move"
    /\ ret.scanned
    /\ ret.root.expired
    /\ Len(ret.root.examined) >= 2
    /\ board = apply_move(ret.before, ret.root.best_move[1], ret.root.best_move[2], "B").result
    /\ \E p \in Cells :
          /\ Legal(ret.before, p, "B")
          /\ \A i \in 1 .. Len(ret.root.examined) : ret.root.examined[i] # p
          /\ RootValue(ret.before, p, call.depth) > ret.root.best_val

\* C13: whenever the game is over, the winner the session declares is the sign
\* of heuristic(board, Black): Black when positive, White when negative, a draw
\* when zero; every game the session ends is ended at the instant-win
\* threshold.
C13_WinnerIsHeuristicSign ==
    game_over =>
        /\ declare_winner(session_state) = SignWinner(board)
        /\ InstantWin(board)

C13_Witness ==
    /\ game_over
    /\ call.op = "ai_move"
    /\ ret.scanned
    /\ declare_winner(session_state) = "B"
    /\ StoneDiff(board, "B") >= INSTANT_WIN_THRESHOLD

\* C14: whenever the game is not over the side to move has a legal move; after a
\* move the turn goes to the other side when it has a legal move, and stays
\* with the mover when it has none.
C14_SideToMoveHasLegalMove ==
    /\ ~game_over => HasLegalMove(board, turn)
    /\ (call.op = "play_human" /\ ret.moved /\ ~game_over)
          => turn = (IF HasLegalMove(board, "B") THEN "B" ELSE "W")
    /\ (call.op = "ai_move" /\ ret.ran /\ ~game_over)
          => turn = (IF HasLegalMove(board, "W") THEN "W" ELSE "B")

C14_Witness ==
    /\ call.op = "play_human"
    /\ ret.moved
    /\ ~game_over
    /\ ~HasLegalMove(board, "B")
    /\ turn = "W"
    /\ HasLegalMove(board, "W")

\* C18: play_human changes no session field unless it is White's turn and the
\* game is not over, ai_move none unless it is Black's turn and the game is not
\* over; once game_over is set, board, turn, history, game_over and the forced
\* winner stay as they are under play_human and ai_move.
C18_NoOpOutOfTurn ==
    [][/\ (call'.op = "play_human" /\ (turn # "W" \/ game_over))
             => UNCHANGED <<board, turn, history, game_over, forced_winner>>
       /\ (call'.op = "ai_move" /\ (turn # "B" \/ game_over))
             => UNCHANGED <<board, turn, history, game_over, forced_winner>>
       /\ (game_over /\ call'.op \in {"play_human", "ai_move"})
             => UNCHANGED <<board, turn, history, game_over, forced_winner>>
      ]_vars

C18_Witness ==
    /\ game_over
    /\ call.op = "ai_move"
    /\ ~ret.ran
    /\ board # new_board
    /\ history # <<>>

=============================================================================
